---------------------------- MODULE Spec2Model ----------------------------
(***************************************************************************)
(* A model of back-end/utils.py: the PDF -> text -> token windows -> JSON  *)
(* pipeline (extract_text_from_pdf, tokenize_and_chunk, jsonify).          *)
(*                                                                         *)
(* Texts are sequences of one-character strings, token sequences are       *)
(* sequences of token ids.  The program is followed statement by           *)
(* statement through the variable pc; an exception that leaves jsonify is  *)
(* recorded in raised and stops the program.                               *)
(***************************************************************************)
EXTENDS Integers, Sequences, FiniteSets, TLC

\* Largest chunk_size / overlap argument explored (the smallest is -1).
MaxParam == 4
\* Largest number of pages of an arbitrary document (SpecDoc).
MaxPages == 3
\* Largest number of paths handed to jsonify (Spec).
MaxDocs == 2

VARIABLES
    paths,        \* jsonify argument: the list of PDF paths
    chunk_size,   \* jsonify argument
    overlap,      \* jsonify argument
    disk,         \* the PDF files: path -> [readable, pages]
    outfile,      \* the destination file: [state, records]
    pc,           \* the statement about to run
    raised,       \* the exception that left jsonify, or "none"
    d,            \* jsonify: number of paths taken from the list so far
    author_name,  \* jsonify local
    data,         \* jsonify local: the accumulated records
    p,            \* extract_text_from_pdf: pages visited so far
    full_text,    \* extract_text_from_pdf local: list of page texts
    text,         \* the string extract_text_from_pdf returned
    tokens,       \* tokenize_and_chunk local
    i,            \* tokenize_and_chunk loop variable
    chunks,       \* tokenize_and_chunk local
    windows,      \* history: (i, chunk_tokens) of each loop iteration of the current call
    returned,     \* history: the list returned by each tokenize_and_chunk call
    encodes,      \* history: number of enc.encode calls
    outfile0      \* history: the destination file when jsonify was called

vars == <<paths, chunk_size, overlap, disk, outfile, pc, raised, d, author_name,
          data, p, full_text, text, tokens, i, chunks, windows, returned,
          encodes, outfile0>>

-----------------------------------------------------------------------------
(* Helpers *)

Min(a, b) == IF a < b THEN a ELSE b
Max(a, b) == IF a > b THEN a ELSE b

\* All sequences over S of length at most n.
SeqsUpTo(S, n) == UNION {[1..k -> S] : k \in 0..n}

-----------------------------------------------------------------------------
(* The tokenizer (tiktoken): a byte-pair vocabulary with one merge, a+b.   *)

TokenBytes == << <<"a">>, <<"b">>, <<"\n">>, <<"a", "b">> >>

TokenOf(c) == CHOOSE t \in 1..3 : TokenBytes[t] = <<c>>

\* enc.encode(text): the merge is applied wherever it matches.
RECURSIVE Encode(_)
Encode(s) ==
    IF s = <<>> THEN <<>>
    ELSE IF Len(s) >= 2 /\ s[1] = "a" /\ s[2] = "b"
         THEN <<4>> \o Encode(SubSeq(s, 3, Len(s)))
         ELSE <<TokenOf(s[1])>> \o Encode(Tail(s))

\* enc.decode(tokens): the tokens' bytes, concatenated.
RECURSIVE Decode(_)
Decode(ts) ==
    IF ts = <<>> THEN <<>> ELSE TokenBytes[Head(ts)] \o Decode(Tail(ts))

-----------------------------------------------------------------------------
(* Python built-ins *)

\* s[lo:hi]: a negative index counts from the end, both are clipped to the list.
PySlice(s, lo, hi) ==
    LET n == Len(s)
        norm(k) == IF k < 0 THEN Max(k + n, 0) ELSE Min(k, n)
    IN  IF norm(lo) < norm(hi) THEN SubSeq(s, norm(lo) + 1, norm(hi)) ELSE <<>>

\* "\n".join(parts)
RECURSIVE Join(_)
Join(parts) ==
    IF parts = <<>> THEN <<>>
    ELSE IF Len(parts) = 1 THEN parts[1]
    ELSE parts[1] \o <<"\n">> \o Join(Tail(parts))

\* os.path.basename(path): what follows the last separator.
RECURSIVE basename(_)
basename(path) ==
    IF \E k \in 1..Len(path) : path[k] = "/"
    THEN basename(Tail(path))
    ELSE path

\* os.path.basename(pdf_path).replace(".pdf", "")
Label(pdf_path) == SelectSeq(basename(pdf_path), LAMBDA piece : piece # ".pdf")

-----------------------------------------------------------------------------
(* Documents *)

NoPage == [kind |-> "none", text |-> <<>>]       \* extract_text() returns None
BadPage == [kind |-> "corrupt", text |-> <<>>]   \* extract_text() raises
TextPage(t) == [kind |-> "text", text |-> t]     \* extract_text() returns t

PageTexts == {<<>>, <<"a">>, <<"a", "b">>, <<"b", "a">>}
PageValues == {NoPage, BadPage} \cup {TextPage(t) : t \in PageTexts}

Document(pages) == [readable |-> TRUE, pages |-> pages]
Unreadable == [readable |-> FALSE, pages |-> <<>>]

\* The files of the batch specification.
LeanPdf == <<"books", "/", "lean", ".pdf">>
ScanPdf == <<"books", "/", "scans", ".pdf">>
TornPdf == <<"torn", ".pdf">>
LostPdf == <<"lost", ".pdf">>

Library ==
    (LeanPdf :> Document(<<TextPage(<<"b", "a">>), NoPage, TextPage(<<"b", "a">>)>>))
    @@ (ScanPdf :> Document(<<NoPage, TextPage(<<>>)>>))
    @@ (TornPdf :> Document(<<TextPage(<<"a">>), BadPage>>))
    @@ (LostPdf :> Unreadable)

Params == -1..MaxParam

OldFile == [state |-> "old", records |-> <<>>]
NoFile == [state |-> "absent", records |-> <<>>]

-----------------------------------------------------------------------------
(* Initial states: jsonify has been called and data = [] (line 64). *)

Start ==
    /\ chunk_size \in Params
    /\ overlap \in Params
    /\ outfile \in {NoFile, OldFile}
    /\ outfile0 = outfile
    /\ pc = "for_pdf"
    /\ raised = "none"
    /\ d = 0
    /\ author_name = <<>>
    /\ data = <<>>
    /\ p = 0
    /\ full_text = <<>>
    /\ text = <<>>
    /\ tokens = <<>>
    /\ i = 0
    /\ chunks = <<>>
    /\ windows = <<>>
    /\ returned = <<>>
    /\ encodes = 0

\* A batch of up to MaxDocs paths over the library.
Init ==
    /\ disk = Library
    /\ paths \in SeqsUpTo(DOMAIN Library, MaxDocs)
    /\ Start

\* One document of up to MaxPages arbitrary pages, or an unreadable one.
InitDoc ==
    /\ \E doc \in {Unreadable} \cup {Document(ps) : ps \in SeqsUpTo(PageValues, MaxPages)} :
           disk = (LeanPdf :> doc)
    /\ paths = <<LeanPdf>>
    /\ Start

-----------------------------------------------------------------------------
(* extract_text_from_pdf *)

pdf_path == paths[d]

\* `if text:` -- None and "" are both falsy.
Truthy_NotNone(page) == page.kind = "text"
Truthy(page) == page.kind = "text" /\ page.text # <<>>

\* pdfplumber.open(pdf_path) succeeds; full_text is [] (lines 13-15).
open_pdf ==
    /\ pc = "open"
    /\ disk[pdf_path].readable
    /\ p' = 0
    /\ full_text' = <<>>
    /\ pc' = "pages"
    /\ UNCHANGED <<paths, chunk_size, overlap, disk, outfile, raised, d, author_name,
                   data, text, tokens, i, chunks, windows, returned, encodes, outfile0>>

\* One iteration of `for page in pdf.pages` (lines 16-19).
extract_page ==
    /\ pc = "pages"
    /\ p < Len(disk[pdf_path].pages)
    /\ LET page == disk[pdf_path].pages[p + 1] IN
        /\ page.kind # "corrupt"
        /\ full_text' = IF Truthy(page) THEN Append(full_text, page.text) ELSE full_text
    /\ p' = p + 1
    /\ UNCHANGED <<paths, chunk_size, overlap, disk, outfile, pc, raised, d, author_name,
                   data, text, tokens, i, chunks, windows, returned, encodes, outfile0>>

\* The exception the program stops with.
Raise(e) ==
    /\ raised' = e
    /\ pc' = "raised"

\* An exception inside the try block is re-raised as RuntimeError (lines 20-21):
\* the file cannot be opened, or a page's extract_text() fails.
extract_raises ==
    /\ \/ pc = "open" /\ ~disk[pdf_path].readable
       \/ /\ pc = "pages"
          /\ p < Len(disk[pdf_path].pages)
          /\ disk[pdf_path].pages[p + 1].kind = "corrupt"
    /\ Raise("RuntimeError")
    /\ UNCHANGED <<paths, chunk_size, overlap, disk, outfile, d, author_name, data, p,
                   full_text, text, tokens, i, chunks, windows, returned, encodes,
                   outfile0>>

\* return "\n".join(full_text) (line 23), back in jsonify at line 71.
join_text ==
    /\ pc = "pages"
    /\ p = Len(disk[pdf_path].pages)
    /\ text' = Join(full_text)
    /\ pc' = "encode"
    /\ UNCHANGED <<paths, chunk_size, overlap, disk, outfile, raised, d, author_name,
                   data, p, full_text, tokens, i, chunks, windows, returned, encodes,
                   outfile0>>

-----------------------------------------------------------------------------
(* tokenize_and_chunk *)

\* The step of range(0, len(tokens), chunk_size - overlap).
Step_IgnoreOverlap == chunk_size
Step == chunk_size - overlap

\* range() refuses a step of zero: "ValueError: range() arg 3 must not be zero".
RangeRaises_Never == FALSE
RangeRaises == Step = 0

\* Whether k is a value of range(0, len(tokens), Step).
InRange_Inclusive(k) == IF Step > 0 THEN k <= Len(tokens) ELSE k > Len(tokens)
InRange_FullOnly(k) == IF Step > 0 THEN k + chunk_size <= Len(tokens) ELSE k > Len(tokens)
InRange(k) == IF Step > 0 THEN k < Len(tokens) ELSE k > Len(tokens)

\* tokens[i:i+chunk_size]
ChunkTokens_OneMore(k) == PySlice(tokens, k, k + chunk_size + 1)
ChunkTokens_OneLess(k) == PySlice(tokens, k, k + chunk_size - 1)
ChunkTokens(k) == PySlice(tokens, k, k + chunk_size)

\* enc = tiktoken.get_encoding(model); tokens = enc.encode(text); chunks = []
\* (lines 41-44).
encode ==
    /\ pc = "encode"
    /\ tokens' = Encode(text)
    /\ encodes' = encodes + 1
    /\ chunks' = <<>>
    /\ windows' = <<>>
    /\ pc' = "range"
    /\ UNCHANGED <<paths, chunk_size, overlap, disk, outfile, raised, d, author_name,
                   data, p, full_text, text, i, returned, outfile0>>

\* range(0, len(tokens), chunk_size - overlap) is built (line 45).
range_start ==
    /\ pc = "range"
    /\ ~RangeRaises
    /\ i' = 0
    /\ pc' = "loop"
    /\ UNCHANGED <<paths, chunk_size, overlap, disk, outfile, raised, d, author_name,
                   data, p, full_text, text, tokens, chunks, windows, returned, encodes,
                   outfile0>>

range_raises ==
    /\ pc = "range"
    /\ RangeRaises
    /\ Raise("ValueError")
    /\ UNCHANGED <<paths, chunk_size, overlap, disk, outfile, d, author_name, data, p,
                   full_text, text, tokens, i, chunks, windows, returned, encodes,
                   outfile0>>

\* One iteration of the loop (lines 45-47).
loop_body ==
    /\ pc = "loop"
    /\ InRange(i)
    /\ LET chunk_tokens == ChunkTokens(i) IN
        /\ chunks' = Append(chunks, Decode(chunk_tokens))
        /\ windows' = Append(windows, [start |-> i, toks |-> chunk_tokens])
    /\ i' = i + Step
    /\ UNCHANGED <<paths, chunk_size, overlap, disk, outfile, pc, raised, d, author_name,
                   data, p, full_text, text, tokens, returned, encodes, outfile0>>

\* The range is exhausted: return chunks (line 49), back in jsonify at line 74.
return_chunks ==
    /\ pc = "loop"
    /\ ~InRange(i)
    /\ returned' = Append(returned, chunks)
    /\ pc' = "records"
    /\ UNCHANGED <<paths, chunk_size, overlap, disk, outfile, raised, d, author_name,
                   data, p, full_text, text, tokens, i, chunks, windows, encodes,
                   outfile0>>

-----------------------------------------------------------------------------
(* jsonify *)

\* `for pdf_path in paths` takes the next path; author_name (lines 66-68).
next_pdf_Continue ==
    /\ pc \in {"for_pdf", "raised"}
    /\ d < Len(paths)
    /\ d' = d + 1
    /\ author_name' = Label(paths[d + 1])
    /\ pc' = "open"
    /\ UNCHANGED <<paths, chunk_size, overlap, disk, outfile, raised, data, p, full_text,
                   text, tokens, i, chunks, windows, returned, encodes, outfile0>>
next_pdf ==
    /\ pc = "for_pdf"
    /\ d < Len(paths)
    /\ d' = d + 1
    /\ author_name' = Label(paths[d + 1])
    /\ pc' = "open"
    /\ UNCHANGED <<paths, chunk_size, overlap, disk, outfile, raised, data, p, full_text,
                   text, tokens, i, chunks, windows, returned, encodes, outfile0>>

\* The records of one document's chunks (lines 77-81).
Records_Reversed(author, cs) ==
    [j \in 1..Len(cs) |-> [author |-> author, text |-> cs[Len(cs) + 1 - j]]]
Records(author, cs) == [j \in 1..Len(cs) |-> [author |-> author, text |-> cs[j]]]

\* `for chunk in chunks: data.append(...)` (lines 77-81).
append_records ==
    /\ pc = "records"
    /\ data' = data \o Records(author_name, chunks)
    /\ pc' = "for_pdf"
    /\ UNCHANGED <<paths, chunk_size, overlap, disk, outfile, raised, d, author_name, p,
                   full_text, text, tokens, i, chunks, windows, returned, encodes,
                   outfile0>>

\* The paths are exhausted: the output file is opened and written (lines 84-89).
write_json ==
    /\ pc = "for_pdf"
    /\ d = Len(paths)
    /\ outfile' = [state |-> "written", records |-> data]
    /\ pc' = "done"
    /\ UNCHANGED <<paths, chunk_size, overlap, disk, raised, d, author_name, data, p,
                   full_text, text, tokens, i, chunks, windows, returned, encodes,
                   outfile0>>

\* open(output_path, "w") fails: the destination is not writable (line 86).
write_raises ==
    /\ pc = "for_pdf"
    /\ d = Len(paths)
    /\ Raise("OSError")
    /\ UNCHANGED <<paths, chunk_size, overlap, disk, outfile, d, author_name, data, p,
                   full_text, text, tokens, i, chunks, windows, returned, encodes,
                   outfile0>>

-----------------------------------------------------------------------------

Next ==
    \/ next_pdf
    \/ open_pdf
    \/ extract_page
    \/ extract_raises
    \/ join_text
    \/ encode
    \/ range_start
    \/ range_raises
    \/ loop_body
    \/ return_chunks
    \/ append_records
    \/ write_json
    \/ write_raises

Spec == Init /\ [][Next]_vars
SpecDoc == InitDoc /\ [][Next]_vars

-----------------------------------------------------------------------------
(* Vocabulary of the properties *)

\* The parameters tokenize_and_chunk is specified for.
Valid == chunk_size > 0 /\ overlap >= 0 /\ overlap < chunk_size

N == Len(tokens)

\* ceil(a / b) for b > 0.
CeilDiv(a, b) == -((-a) \div b)

\* tokenize_and_chunk has just returned to jsonify.
Returned == pc = "records"

\* The token positions (1-based) window k was cut from.
Pos(k) == (windows[k].start + 1)..(windows[k].start + Len(windows[k].toks))

Size(k) == Len(windows[k].toks)

-----------------------------------------------------------------------------
(* C1: the number of chunks *)

\* C1 as stated: for valid parameters the call returns 0 chunks when N = 0 and
\* otherwise ceil((N - overlap) / (chunk_size - overlap)) chunks.
C1_AsStated ==
    (Valid /\ Returned) =>
        Len(chunks) = IF N = 0 THEN 0 ELSE CeilDiv(N - overlap, chunk_size - overlap)

\* C1 (amended): for valid parameters the call returns exactly
\* ceil(N / (chunk_size - overlap)) chunks, which is 0 exactly when N = 0.
C1_ChunkCount ==
    (Valid /\ Returned) =>
        /\ Len(chunks) = CeilDiv(N, chunk_size - overlap)
        /\ (Len(chunks) = 0 <=> N = 0)

\* Three chunks from overlapping windows, the last one short (the shape of the
\* 1000 / 500 / 50 scenario).
C1_Witness ==
    /\ Valid /\ Returned
    /\ overlap > 0
    /\ Len(chunks) = 3
    /\ Size(1) = chunk_size /\ Size(2) = chunk_size /\ Size(3) < chunk_size
    /\ Len(chunks) = CeilDiv(N - overlap, chunk_size - overlap)

-----------------------------------------------------------------------------
(* C2: every chunk decodes a contiguous window of 1..chunk_size tokens *)

\* C2: for valid parameters each chunk is the decoding of a contiguous window of
\* the token sequence holding at least 1 and at most chunk_size tokens.
C2_WindowBounded ==
    Valid =>
        /\ Len(chunks) = Len(windows)
        /\ \A k \in 1..Len(windows) :
              /\ Size(k) >= 1
              /\ Size(k) <= chunk_size
              /\ windows[k].start >= 0
              /\ windows[k].start + Size(k) <= N
              /\ \A j \in 1..Size(k) : windows[k].toks[j] = tokens[windows[k].start + j]
              /\ chunks[k] = Decode(windows[k].toks)

C2_Witness ==
    /\ Valid /\ Returned
    /\ \E k \in 1..Len(windows) : Size(k) = chunk_size /\ chunk_size > 1
    /\ \E k \in 1..Len(windows) : Size(k) = 1 /\ chunk_size > 1

-----------------------------------------------------------------------------
(* C3: which windows are full *)

\* C3 as stated: for valid parameters and N > 0, every chunk but the last comes
\* from a window of exactly chunk_size tokens.
C3_AsStated ==
    (Valid /\ Returned /\ N > 0) =>
        \A k \in 1..(Len(windows) - 1) : Size(k) = chunk_size

\* C3 (amended): a window lying wholly inside the token sequence has exactly
\* chunk_size tokens; a shorter window ends at the last token; every window but
\* the last has exactly chunk_size tokens when overlap = 0 and more than
\* chunk_size - overlap tokens when overlap > 0.
C3_FullUnlessAtEnd ==
    Valid =>
        \A k \in 1..Len(windows) :
            /\ (windows[k].start + chunk_size <= N => Size(k) = chunk_size)
            /\ (Size(k) < chunk_size => windows[k].start + Size(k) = N)
            /\ (k < Len(windows) /\ overlap > 0 => Size(k) > chunk_size - overlap)
            /\ (k < Len(windows) /\ overlap = 0 => Size(k) = chunk_size)

\* A window that is not the last one and is shorter than chunk_size.
C3_Witness ==
    /\ Valid /\ Returned
    /\ \E k \in 1..(Len(windows) - 1) : Size(k) < chunk_size

-----------------------------------------------------------------------------
(* C4: what consecutive windows share *)

\* Windows k and k+1 share exactly overlap tokens: the last overlap positions of
\* window k are the first overlap positions of window k+1.
SharesOverlap(k) ==
    /\ Cardinality(Pos(k) \cap Pos(k + 1)) = overlap
    /\ Size(k) >= overlap
    /\ Size(k + 1) >= overlap
    /\ \A j \in 1..overlap :
          /\ windows[k].start + Size(k) - overlap + j = windows[k + 1].start + j
          /\ windows[k].toks[Size(k) - overlap + j] = windows[k + 1].toks[j]

\* C4 as stated: with overlap > 0, consecutive windows share exactly overlap
\* tokens, except where the second is the final window and has fewer than
\* overlap tokens.
C4_AsStated ==
    (Valid /\ overlap > 0 /\ Returned) =>
        \A k \in 1..(Len(windows) - 1) :
            \/ k + 1 = Len(windows) /\ Size(k + 1) < overlap
            \/ SharesOverlap(k)

\* C4 (amended): with overlap > 0, consecutive windows k and k+1 share exactly
\* overlap tokens whenever window k+1 has at least overlap tokens; a window k+1
\* with fewer tokens, final or not, lies wholly inside window k.
C4_OverlapShared ==
    (Valid /\ overlap > 0) =>
        \A k \in 1..(Len(windows) - 1) :
            IF Size(k + 1) >= overlap
            THEN SharesOverlap(k)
            ELSE Pos(k + 1) \subseteq Pos(k)

\* A pair sharing exactly overlap tokens, and a later window that has fewer than
\* overlap tokens without being the final one.
C4_Witness ==
    /\ Valid /\ overlap > 0 /\ Returned
    /\ Len(windows) >= 2 /\ SharesOverlap(1)
    /\ \E k \in 2..(Len(windows) - 1) : Size(k) < overlap

-----------------------------------------------------------------------------
(* C5: invalid parameters *)

\* C5: with chunk_size <= 0, overlap < 0 or overlap >= chunk_size the call fails
\* before any tokenization and without producing a chunk (no ValueError of the
\* loop, no list returned).
C5_RejectedBeforeEncoding ==
    ~Valid =>
        /\ encodes = 0
        /\ chunks = <<>>
        /\ returned = <<>>
        /\ raised # "ValueError"

-----------------------------------------------------------------------------
(* C6: the records of the batch *)

\* One record per chunk returned for the first n paths, in order.
RECURSIVE ExpectedData(_)
ExpectedData(n) ==
    IF n = 0 THEN <<>>
    ELSE ExpectedData(n - 1) \o
         [j \in 1..Len(returned[n]) |->
             [author |-> Label(paths[n]), text |-> returned[n][j]]]

\* C6: the collection holds one record per chunk of each document, labelled with
\* that document's label, in list order and, within a document, in window
\* order; a document without chunks adds nothing.  What is written is the
\* collection of the whole list.
C6_RecordsInOrder ==
    /\ data = ExpectedData(IF Returned THEN Len(returned) - 1 ELSE Len(returned))
    /\ outfile # outfile0 =>
          /\ Len(returned) = Len(paths)
          /\ outfile.records = ExpectedData(Len(paths))

\* Two documents with 3 and 0 chunks: 3 records, all labelled "lean".
C6_Witness ==
    /\ pc = "done"
    /\ paths = <<LeanPdf, ScanPdf>>
    /\ Len(returned[1]) = 3 /\ Len(returned[2]) = 0
    /\ Len(outfile.records) = 3
    /\ \A j \in 1..3 : outfile.records[j].author = <<"lean">>
    /\ outfile.records[1].text # outfile.records[3].text

-----------------------------------------------------------------------------
(* C7: a failing document aborts the batch *)

\* C7: when extraction or chunking fails, the error leaves jsonify at once: the
\* failing document is the last one taken from the list, nothing was returned
\* for it, and the destination file is as it was.  The file changes only after
\* every document of the list has been processed without error.
C7_AbortsBatch ==
    /\ raised \in {"RuntimeError", "ValueError"} =>
          /\ pc = "raised"
          /\ outfile = outfile0
          /\ d >= 1
          /\ Len(returned) = d - 1
    /\ outfile # outfile0 =>
          /\ raised = "none"
          /\ d = Len(paths)
          /\ Len(returned) = Len(paths)

\* The second document fails after the first one gave records, with an old
\* output file in place.
C7_Witness ==
    /\ raised = "RuntimeError"
    /\ d = 2
    /\ Len(data) > 0
    /\ outfile = OldFile

-----------------------------------------------------------------------------
(* C8: the extracted text *)

\* The texts of the pages that yield non-empty text, in page order.
RECURSIVE KeptTexts(_)
KeptTexts(pages) ==
    IF pages = <<>> THEN <<>>
    ELSE LET h == Head(pages) IN
         IF h.kind = "text" /\ Len(h.text) > 0
         THEN <<h.text>> \o KeptTexts(Tail(pages))
         ELSE KeptTexts(Tail(pages))

\* Where the j-th of the texts ks starts in their newline-separated join.
RECURSIVE Offset(_, _)
Offset(ks, j) == IF j = 1 THEN 0 ELSE Offset(ks, j - 1) + Len(ks[j - 1]) + 1

\* t is the texts ks, in order, with one newline between neighbours.
IsJoined(t, ks) ==
    /\ Len(t) = IF ks = <<>> THEN 0 ELSE Offset(ks, Len(ks)) + Len(ks[Len(ks)])
    /\ \A j \in 1..Len(ks) :
          /\ SubSeq(t, Offset(ks, j) + 1, Offset(ks, j) + Len(ks[j])) = ks[j]
          /\ j > 1 => t[Offset(ks, j)] = "\n"

\* extract_text_from_pdf has returned for the current path.
Extracted ==
    /\ d >= 1
    /\ \/ pc \in {"encode", "range", "loop", "records", "for_pdf", "done"}
       \/ raised \in {"ValueError", "OSError"}

\* C8: the returned text is the kept page texts in page order, one newline
\* between consecutive kept texts; pages without text add nothing, and no kept
\* page gives the empty string.
C8_ExtractedText ==
    Extracted => IsJoined(text, KeptTexts(disk[pdf_path].pages))

\* Two kept pages with a textless page among the pages.
C8_Witness ==
    /\ Extracted
    /\ Len(KeptTexts(disk[pdf_path].pages)) = 2
    /\ \E k \in 1..Len(disk[pdf_path].pages) : ~Truthy(disk[pdf_path].pages[k])
    /\ \E k \in 1..Len(text) : text[k] = "\n"

-----------------------------------------------------------------------------
(* C9: overlap >= chunk_size *)

\* C9 as stated: on a non-empty token sequence, overlap = chunk_size makes the
\* loop run without end (the call neither returns nor raises), and
\* overlap > chunk_size makes the call produce chunks (in reversed order).
C9_AsStated ==
    N > 0 =>
        /\ overlap = chunk_size => raised # "ValueError" /\ ~Returned
        /\ (overlap > chunk_size /\ Returned) => Len(chunks) > 0

\* C9 (amended): nothing guards the loop against overlap >= chunk_size.  With
\* overlap = chunk_size the loop is never entered: range() raises ValueError
\* after the text was tokenized, whatever the tokens, and no chunk is produced.
\* With overlap > chunk_size the range is empty: no window is taken and the
\* call returns the empty list.  A ValueError has no other cause.
C9_DegenerateStride ==
    /\ overlap = chunk_size =>
          /\ pc \notin {"loop", "records"}
          /\ chunks = <<>> /\ returned = <<>>
          /\ raised \in {"none", "RuntimeError", "ValueError"}
    /\ raised = "ValueError" =>
          /\ overlap = chunk_size
          /\ encodes = d
          /\ pc = "raised"
    /\ overlap > chunk_size =>
          /\ chunks = <<>> /\ windows = <<>>
          /\ \A k \in 1..Len(returned) : returned[k] = <<>>
          /\ raised # "ValueError"

\* range() has raised on a non-empty token sequence.
C9_Witness ==
    /\ raised = "ValueError"
    /\ N > 0
    /\ overlap = chunk_size

-----------------------------------------------------------------------------
(* C10: the windows cover the token sequence *)

\* The first window whole, then each later window without the tokens it shares
\* with its predecessor.
RECURSIVE Rebuild(_)
Rebuild(k) ==
    IF k = 0 THEN <<>>
    ELSE IF k = 1 THEN windows[1].toks
    ELSE LET shared == Cardinality(Pos(k - 1) \cap Pos(k)) IN
         Rebuild(k - 1) \o SubSeq(windows[k].toks, shared + 1, Size(k))

\* C10: for valid parameters the windows start at 0, stride, 2*stride, ..., all
\* below N, and on return they cover every token position with no gap:
\* rebuilding from the windows gives the token sequence.
C10_Coverage ==
    Valid =>
        /\ \A k \in 1..Len(windows) :
              /\ windows[k].start = (k - 1) * (chunk_size - overlap)
              /\ windows[k].start < N
        /\ Returned =>
              /\ UNION {Pos(k) : k \in 1..Len(windows)} = 1..N
              /\ Rebuild(Len(windows)) = tokens

C10_Witness ==
    /\ Valid /\ Returned
    /\ overlap > 0
    /\ Len(windows) >= 3
    /\ Size(Len(windows)) < overlap
    /\ Rebuild(Len(windows)) = tokens

=============================================================================
